---- MODULE Spec2Model ----
(***************************************************************************)
(* Requirement algebra, resource catalog, pickup model and world graph of  *)
(* randovania/resolver/game_description.py as state machines, and the      *)
(* game session of randovania/server/game_session.py as far as             *)
(* test/server/test_game_session.py pins it down.                          *)
(*                                                                         *)
(* SpecReq     : RequirementSet construction, simplify and merge.          *)
(* SpecSat     : satisfied() over item and damage predicates.              *)
(* SpecCatalog : ResourceDatabase.get_by_type_and_index calls.             *)
(* SpecPickup  : lookups on one PickupDatabase and its name cache.         *)
(* SpecThreads : two lookups of one name interleaved statement by          *)
(*               statement.                                                *)
(* SpecGraph   : consistency_check walking the nodes of a GameDescription, *)
(*               and resolve_dock_node / resolve_teleporter_node calls.    *)
(* SpecCore    : the calls of SpecReq, SpecSat, SpecPickup and SpecGraph   *)
(*               together.                                                 *)
(* SpecSession : admin actions on one game session.                        *)
(***************************************************************************)
EXTENDS Integers, Sequences, FiniteSets, TLC

VARIABLES
    cur,     \* the alternatives of the RequirementSet the caller holds
    last,    \* the requirement-algebra call that produced cur
    tables,  \* PickupDatabase: percent_less_items, direct_name, custom_mapping
    cache,   \* PickupDatabase._cache
    calls,   \* the lookups made so far on the PickupDatabase, in order
    game,    \* GameDescription: worlds and the reverse map nodes_to_world
    visited, \* number of nodes consistency_check has gone through
    yielded, \* the (node, message) pairs consistency_check has produced
    status,  \* "running", "done", or the exception that ended the generator
    resolution, \* the last resolve_dock_node / resolve_teleporter_node call
    fetched, \* the last ResourceDatabase.get_by_type_and_index call
    session, \* the GameSession row of the server's database
    admin,   \* the last game_session_admin_session call on the session
    threads  \* the lookups running concurrently on the PickupDatabase

reqVars == <<cur, last>>
pickupVars == <<tables, cache, calls>>
graphVars == <<game, visited, yielded, status, resolution>>
catalogVars == <<fetched>>
sessionVars == <<session, admin>>
threadVars == <<threads>>
vars == <<cur, last, tables, cache, calls, game, visited, yielded, status, resolution,
          fetched, session, admin, threads>>

-----------------------------------------------------------------------------
(* Bounds of the requirement algebra model.                                *)

\* Largest number of candidate conjunctions handed to the constructor.
MaxAlternatives == 2
\* Largest number of predicates in an authored conjunction.
MaxListLen == 2

-----------------------------------------------------------------------------
(* Resource catalog (ResourceDatabase).                                    *)

\* Names are strings, written as sequences of characters.
ItemA == [cls |-> "Simple", index |-> 1, long_name |-> <<"a">>]
ItemAB == [cls |-> "Simple", index |-> 2, long_name |-> <<"a", "b">>]
\* A second item resource carrying the long name of ItemAB.
ItemAB2 == [cls |-> "Simple", index |-> 3, long_name |-> <<"a", "b">>]
ItemPercentage == [cls |-> "Simple", index |-> 47, long_name |-> <<"p">>]
DamageA == [cls |-> "Damage", index |-> 0, long_name |-> <<"d">>]
TrivialRes == [cls |-> "Simple", index |-> 0, long_name |-> <<"t">>]
ImpossibleRes == [cls |-> "Simple", index |-> 1, long_name |-> <<"i">>]

\* Marker for a lookup that raised instead of returning a resource.
NotFound == [cls |-> "NotFound", index |-> -1, long_name |-> <<>>]

\* The catalog the requirement algebra runs against.
ReqDatabase ==
    [item |-> <<ItemA, ItemPercentage>>,
     damage |-> <<DamageA>>,
     misc |-> <<TrivialRes, ImpossibleRes>>]

ResourceTypes ==
    {"ITEM", "EVENT", "TRICK", "DAMAGE", "VERSION", "MISC", "DIFFICULTY"}

get_by_type(database, resource_type) ==
    CASE resource_type = "ITEM" -> database.item
      [] resource_type = "EVENT" -> database.event
      [] resource_type = "TRICK" -> database.trick
      [] resource_type = "DAMAGE" -> database.damage
      [] resource_type = "VERSION" -> database.version
      [] resource_type = "MISC" -> database.misc
      [] resource_type = "DIFFICULTY" -> database.difficulty

\* Falls back to the first entry of the list when none has the index.
find_resource_info_with_id_or_first(info_list, index) ==
    LET hits == {i \in DOMAIN info_list : info_list[i].index = index}
    IN  IF hits = {} THEN (IF info_list = <<>> THEN NotFound ELSE info_list[1])
        ELSE info_list[CHOOSE i \in hits : \A j \in hits : i <= j]

\* Linear scan: the first entry with that index, NotFound when none has it.
find_resource_info_with_id(info_list, index) ==
    LET hits == {i \in DOMAIN info_list : info_list[i].index = index}
    IN  IF hits = {} THEN NotFound
        ELSE info_list[CHOOSE i \in hits : \A j \in hits : i <= j]

get_by_type_and_index(database, resource_type, index) ==
    find_resource_info_with_id(get_by_type(database, resource_type), index)

trivial_resource(database) == get_by_type_and_index(database, "MISC", 0)

impossible_resource(database) == get_by_type_and_index(database, "MISC", 1)

item_percentage(database) == get_by_type_and_index(database, "ITEM", 47)

\* No get_by_type_and_index call has been made.
NoFetch ==
    [called |-> FALSE, database |-> <<>>, resource_type |-> "", index |-> 0,
     outcome |-> NotFound]

\* The catalog variables while no catalog lookup is made.
CatalogIdle == fetched = NoFetch

-----------------------------------------------------------------------------
(* Requirement algebra.                                                    *)

\* Resources the authored predicates and the resource mappings mention.
ReqResources == {ItemA, TrivialRes, ImpossibleRes}

Amounts == {1}
Counts == {0, 1}

\* IndividualRequirement: (resource, amount, negate).  The authored predicates:
\* a threshold on every resource, and the negated threshold on the item.
Requirements ==
    [resource : ReqResources, amount : Amounts, negate : {FALSE}]
        \cup [resource : {ItemA}, amount : Amounts, negate : {TRUE}]

\* CurrentResources: a dict; Absent marks a resource that is no key of it.
Absent == -1
ResourceMappings == [ReqResources -> Counts \cup {Absent}]

\* dict.get(resource, 0)
GetOrZero(current_resources, resource) ==
    IF current_resources[resource] = Absent THEN 0
    ELSE current_resources[resource]

\* Compares with > where the code compares with >=.
IndividualRequirementSatisfiedStrict(req, current_resources) ==
    IF req.resource.cls = "Damage" THEN TRUE
    ELSE LET has_amount == GetOrZero(current_resources, req.resource) > req.amount
         IN  IF req.negate THEN ~has_amount ELSE has_amount

\* Evaluates a damage predicate as a threshold, like any other predicate.
IndividualRequirementSatisfiedDamageEvaluated(req, current_resources) ==
    LET has_amount == GetOrZero(current_resources, req.resource) >= req.amount
    IN  IF req.negate THEN ~has_amount ELSE has_amount

IndividualRequirementSatisfied(req, current_resources) ==
    IF req.resource.cls = "Damage" THEN TRUE
    ELSE LET has_amount == GetOrZero(current_resources, req.resource) >= req.amount
         IN  IF req.negate THEN ~has_amount ELSE has_amount

RequirementListSatisfied(list, current_resources) ==
    \A req \in list : IndividualRequirementSatisfied(req, current_resources)

\* Optional[RequirementList]
None == [none |-> TRUE, items |-> {}]
Some(items) == [none |-> FALSE, items |-> items]

\* Drops a pinned predicate without evaluating it.
RequirementListSimplifyNoCheck(list, static_resources, database) ==
    IF \E item \in list : item.resource = impossible_resource(database)
    THEN None
    ELSE Some({item \in list :
                  /\ static_resources[item.resource] = Absent
                  /\ item.resource # trivial_resource(database)})

\* Collapses on a pinned predicate that passes instead of one that fails.
RequirementListSimplifyInverted(list, static_resources, database) ==
    IF \E item \in list :
           \/ item.resource = impossible_resource(database)
           \/ /\ static_resources[item.resource] # Absent
              /\ IndividualRequirementSatisfied(item, static_resources)
    THEN None
    ELSE Some({item \in list :
                  /\ static_resources[item.resource] = Absent
                  /\ item.resource # trivial_resource(database)})

RequirementListSimplify(list, static_resources, database) ==
    IF \E item \in list :
           \/ item.resource = impossible_resource(database)
           \/ /\ static_resources[item.resource] # Absent
              /\ ~IndividualRequirementSatisfied(item, static_resources)
    THEN None
    ELSE Some({item \in list :
                  /\ static_resources[item.resource] = Absent
                  /\ item.resource # trivial_resource(database)})

\* frozenset(alternatives): the distinct members of the iterable supplied.
frozenset(iterable) == {iterable[i] : i \in DOMAIN iterable}

\* RequirementSet.__init__: the alternatives kept from the candidates.
RequirementSetInitNoPruning(alternatives) == alternatives

\* Keeps the candidates that have no strict superset among the candidates.
RequirementSetInitMaximal(alternatives) ==
    {requirement \in alternatives :
        ~\E other \in alternatives : requirement \subseteq other /\ other # requirement}

\* Tests "other <= requirement", which every candidate passes against itself.
RequirementSetInitNonStrict(alternatives) ==
    {requirement \in alternatives :
        ~\E other \in alternatives : other \subseteq requirement}

RequirementSetInit(alternatives) ==
    {requirement \in alternatives :
        ~\E other \in alternatives : other \subseteq requirement /\ other # requirement}

\* trivial() built from no alternative instead of the empty conjunction.
TrivialWithoutAlternative == RequirementSetInit({})

Trivial == RequirementSetInit({{}})

Impossible == RequirementSetInit({})

RequirementSetSatisfied(alternatives, current_resources) ==
    \E requirement_list \in alternatives :
        RequirementListSatisfied(requirement_list, current_resources)

\* The list new_alternatives of RequirementSet.simplify, per alternative.
NewAlternatives(alternatives, static_resources, database) ==
    [alternative \in alternatives |->
        RequirementListSimplify(alternative, static_resources, database)]

\* Hands the constructor every result, a None as the conjunction it stands for.
RequirementSetSimplifyKeepNone(alternatives, static_resources, database) ==
    LET new_alternatives == NewAlternatives(alternatives, static_resources, database)
    IN  RequirementSetInit({new_alternatives[a].items : a \in alternatives})

RequirementSetSimplify(alternatives, static_resources, database) ==
    LET new_alternatives == NewAlternatives(alternatives, static_resources, database)
    IN  RequirementSetInit({new_alternatives[a].items : a \in
                               {b \in alternatives : ~new_alternatives[b].none}})

RequirementSetMergeAsUnion(alternatives, other) ==
    RequirementSetInit(alternatives \cup other)

\* The cross product as it is, without the constructor.
RequirementSetMergeUnpruned(alternatives, other) ==
    {a \cup b : a \in alternatives, b \in other}

\* The cross product of the set with itself, other never read.
RequirementSetMergeWithSelf(alternatives, other) ==
    RequirementSetInit({a \cup b : a \in alternatives, b \in alternatives})

RequirementSetMerge(alternatives, other) ==
    RequirementSetInit({a \cup b : a \in alternatives, b \in other})

-----------------------------------------------------------------------------
(* Pickup model (PickupDatabase).                                          *)

\* Largest number of lookups made on one PickupDatabase.
MaxCalls == 3
\* Largest number of patterns in custom_mapping.
MaxPatterns == 2

EmptyDict == <<>>

\* Pickup names looked up; <<"p">> is also the long name of ItemPercentage.
PickupNames == {<<"a">>, <<"a", "b">>, <<"p">>}

\* Two catalogs: the second lacks the item "a", lists the percentage resource
\* first and has two item resources with the long name "ab".
Database1 ==
    [item |-> <<ItemA, ItemAB, ItemPercentage>>,
     damage |-> <<DamageA>>,
     misc |-> <<TrivialRes, ImpossibleRes>>]
Database2 ==
    [item |-> <<ItemPercentage, ItemAB, ItemAB2>>,
     damage |-> <<DamageA>>,
     misc |-> <<TrivialRes, ImpossibleRes>>]
PickupCatalogs == {Database1, Database2}

\* re.match(pattern, name) for patterns of literal characters and ".":
\* the pattern has to match a prefix of the name.
ReMatch(pattern, name) ==
    /\ Len(pattern) <= Len(name)
    /\ \A i \in 1..Len(pattern) : pattern[i] = "." \/ pattern[i] = name[i]

\* The tables a PickupDatabase is constructed with.
PercentLessChoices == SUBSET {<<"a">>, <<"p">>}
DirectNameChoices == {EmptyDict, <<"a">> :> 2, <<"p">> :> 1}
CustomValues ==
    {<<"a">> :> 5, <<"a", "b">> :> 3, (<<"a">> :> 5) @@ (<<"a", "b">> :> 3)}
CustomEntries == [pattern : {<<"a">>, <<".">>}, values : CustomValues]

\* custom_mapping is a dict: its patterns are distinct, its order is kept.
RECURSIVE CustomMappingsOfLen(_)
CustomMappingsOfLen(n) ==
    IF n = 0 THEN {<<>>}
    ELSE {Append(m, e) : m \in CustomMappingsOfLen(n - 1), e \in CustomEntries}
CustomMappingChoices ==
    {m \in UNION {CustomMappingsOfLen(n) : n \in 0..MaxPatterns} :
        \A i \in DOMAIN m : \A j \in DOMAIN m : i # j => m[i].pattern # m[j].pattern}

Returned(result) == [outcome |-> "returned", error |-> "", result |-> result]
Raised(error) == [outcome |-> "raised", error |-> error, result |-> <<>>]

\* Lines 153-155: the result starts with (item-percentage, 1) unless the
\* name is in percent_less_items.
PercentageEntryInverted(t, name, database) ==
    IF name \in t.percent_less_items
    THEN <<<<item_percentage(database), 1>>>>
    ELSE <<>>

PercentageEntry(t, name, database) ==
    IF name \notin t.percent_less_items
    THEN <<<<item_percentage(database), 1>>>>
    ELSE <<>>

\* Position of the first entry of info_list with that long name, 0 if none.
FirstWithLongName(info_list, long_name) ==
    LET hits == {i \in DOMAIN info_list : info_list[i].long_name = long_name}
    IN  IF hits = {} THEN 0 ELSE CHOOSE i \in hits : \A j \in hits : i <= j

\* Position of the last pattern of custom_mapping that matches name.
LastMatch(custom_mapping, name) ==
    LET hits == {i \in DOMAIN custom_mapping : ReMatch(custom_mapping[i].pattern, name)}
    IN  IF hits = {} THEN 0 ELSE CHOOSE i \in hits : \A j \in hits : i >= j

\* Position of the first pattern of custom_mapping that matches name, 0 if none.
FirstMatch(custom_mapping, name) ==
    LET hits == {i \in DOMAIN custom_mapping : ReMatch(custom_mapping[i].pattern, name)}
    IN  IF hits = {} THEN 0 ELSE CHOOSE i \in hits : \A j \in hits : i <= j

\* Lines 172-174: (info, values[info.long_name]) for each catalog item named
\* in values, in catalog order.
ResolveValues(item_database, values) ==
    LET found == SelectSeq(item_database, LAMBDA info : info.long_name \in DOMAIN values)
    IN  [i \in 1..Len(found) |-> <<found[i], values[found[i].long_name]>>]

\* Lines 157-164, falling through to custom_mapping instead of raising.
CustomGain(t, name, item_database, result) ==
    LET m == FirstMatch(t.custom_mapping, name)
    IN  IF m = 0 THEN Raised("Unknown")
        ELSE LET values == t.custom_mapping[m].values
                 resolved == ResolveValues(item_database, values)
             IN  IF Len(resolved) # Cardinality(DOMAIN values)
                 THEN Raised("ResourceNotFound")
                 ELSE Returned(result \o resolved)

DirectGainFallThrough(t, name, item_database, result) ==
    LET i == FirstWithLongName(item_database, name)
    IN  IF i = 0 THEN CustomGain(t, name, item_database, result)
        ELSE Returned(Append(result, <<item_database[i], t.direct_name[name]>>))

\* Lines 157-164: the pickup gives the item resource of the same name.
DirectGain(t, name, item_database, result) ==
    LET i == FirstWithLongName(item_database, name)
    IN  IF i = 0 THEN Raised("NotFoundInDatabase")
        ELSE Returned(Append(result, <<item_database[i], t.direct_name[name]>>))

\* Lines 151-184: the body of pickup_name_to_resource_gain past the cache.
Uncached(t, name, database) ==
    LET item_database == get_by_type(database, "ITEM")
    IN  IF name \notin t.percent_less_items /\ item_percentage(database) = NotFound
        THEN Raised("IndexNotFound")
        ELSE LET result == PercentageEntry(t, name, database)
             IN  IF name \in DOMAIN t.direct_name
                 THEN DirectGain(t, name, item_database, result)
                 ELSE CustomGain(t, name, item_database, result)

NoEntry == [some |-> FALSE, value |-> <<>>]

\* do_return storing the gain without its last entry.
CacheStoreTruncated(the_cache, name, value) ==
    [the_cache EXCEPT ![name] =
        [some |-> TRUE, value |-> SubSeq(value, 1, Len(value) - 1)]]

\* do_return replacing the whole cache by the one new entry.
CacheStoreEvicting(the_cache, name, value) ==
    [n \in DOMAIN the_cache |->
        IF n = name THEN [some |-> TRUE, value |-> value] ELSE NoEntry]

\* do_return storing the gain under every name.
CacheStoreUnderEveryName(the_cache, name, value) ==
    [n \in DOMAIN the_cache |-> [some |-> TRUE, value |-> value]]

\* do_return: self._cache[name] = value
CacheStore(the_cache, name, value) ==
    [the_cache EXCEPT ![name] = [some |-> TRUE, value |-> value]]

\* The cache written on every way out, with whatever result holds by then.
CacheAfterStoringOnRaise(the_cache, name, gain) ==
    CacheStore(the_cache, name, gain.result)

\* The cache after the body past line 150 ended in gain: do_return is called
\* on the two return paths (lines 163, 182) and on no raise path.
CacheAfter(the_cache, name, gain) ==
    IF gain.outcome = "returned"
    THEN CacheStore(the_cache, name, gain.result)
    ELSE the_cache

\* The list under construction stored in the cache from its first entry on.
CacheWhileBuildingShared(the_cache, name, result) ==
    CacheStore(the_cache, name, result)

\* The cache while a lookup builds its result (lines 150-174): result is a
\* local list, out of reach of the cache until do_return stores it.
CacheWhileBuilding(the_cache, name, result) ==
    the_cache

\* The value of tables while no PickupDatabase has been constructed.
NoPickupDatabase ==
    [percent_less_items |-> {}, direct_name |-> EmptyDict,
     custom_mapping |-> <<>>, constructed |-> FALSE]

\* The pickup variables while no PickupDatabase is in use.
PickupIdle ==
    /\ tables = NoPickupDatabase
    /\ cache = [name \in PickupNames |-> NoEntry]
    /\ calls = <<>>

-----------------------------------------------------------------------------
(* World graph (Area, World, GameDescription).                             *)

\* default_node_index of an Area without a default node.
NoDefaultNode == 255

GenericNode(name) ==
    [kind |-> "Generic", name |-> name]
DockNode(name, dock_index, connected_area_asset_id, connected_dock_index) ==
    [kind |-> "Dock", name |-> name, dock_index |-> dock_index,
     connected_area_asset_id |-> connected_area_asset_id,
     connected_dock_index |-> connected_dock_index]
TeleporterNode(name, destination_world_asset_id, destination_area_asset_id) ==
    [kind |-> "Teleporter", name |-> name,
     destination_world_asset_id |-> destination_world_asset_id,
     destination_area_asset_id |-> destination_area_asset_id]

Area(area_asset_id, default_node_index, nodes) ==
    [area_asset_id |-> area_asset_id, default_node_index |-> default_node_index,
     nodes |-> nodes]
World(world_asset_id, areas) ==
    [world_asset_id |-> world_asset_id, areas |-> areas]

\* The outcome of a lookup: the value returned or the exception raised.
Found(value) == [raised |-> "", value |-> value]
Raise(exception) == [raised |-> exception, value |-> <<>>]

\* A linear scan: the least of the positions that pass the test, 0 if none.
FirstOf(hits) ==
    IF hits = {} THEN 0 ELSE CHOOSE i \in hits : \A j \in hits : i <= j

\* Returns the first DockNode of the area whatever its dock_index.
node_with_dock_index_any(area, dock_index) ==
    LET i == FirstOf({k \in DOMAIN area.nodes : area.nodes[k].kind = "Dock"})
    IN  IF i = 0 THEN Raise("IndexError") ELSE Found(area.nodes[i])

\* Signals a missing dock with the exception the asset id lookups use.
node_with_dock_index_key_error(area, dock_index) ==
    LET i == FirstOf({k \in DOMAIN area.nodes :
                         /\ area.nodes[k].kind = "Dock"
                         /\ area.nodes[k].dock_index = dock_index})
    IN  IF i = 0 THEN Raise("KeyError") ELSE Found(area.nodes[i])

node_with_dock_index(area, dock_index) ==
    LET i == FirstOf({k \in DOMAIN area.nodes :
                         /\ area.nodes[k].kind = "Dock"
                         /\ area.nodes[k].dock_index = dock_index})
    IN  IF i = 0 THEN Raise("IndexError") ELSE Found(area.nodes[i])

area_by_asset_id(world, asset_id) ==
    LET i == FirstOf({k \in DOMAIN world.areas :
                         world.areas[k].area_asset_id = asset_id})
    IN  IF i = 0 THEN Raise("KeyError") ELSE Found(world.areas[i])

world_by_asset_id(the_game, asset_id) ==
    LET i == FirstOf({k \in DOMAIN the_game.worlds :
                         the_game.worlds[k].world_asset_id = asset_id})
    IN  IF i = 0 THEN Raise("KeyError") ELSE Found(the_game.worlds[i])

\* game.nodes_to_world[node]: a dict subscript.
nodes_to_world(the_game, node) ==
    IF node \in DOMAIN the_game.nodes_to_world
    THEN Found(the_game.nodes_to_world[node])
    ELSE Raise("KeyError")

resolve_dock_node(node, the_game) ==
    LET world == nodes_to_world(the_game, node)
    IN  IF world.raised # "" THEN world
        ELSE LET area == area_by_asset_id(world.value, node.connected_area_asset_id)
             IN  IF area.raised # "" THEN area
                 ELSE node_with_dock_index(area.value, node.connected_dock_index)

\* Subscripts the node list without testing for the missing default node.
resolve_teleporter_node_unchecked(node, the_game) ==
    LET world == world_by_asset_id(the_game, node.destination_world_asset_id)
    IN  IF world.raised # "" THEN world
        ELSE LET area == area_by_asset_id(world.value, node.destination_area_asset_id)
             IN  IF area.raised # "" THEN area
                 ELSE IF area.value.default_node_index >= Len(area.value.nodes)
                      THEN Raise("IndexError")
                      ELSE Found(area.value.nodes[area.value.default_node_index + 1])

resolve_teleporter_node(node, the_game) ==
    LET world == world_by_asset_id(the_game, node.destination_world_asset_id)
    IN  IF world.raised # "" THEN world
        ELSE LET area == area_by_asset_id(world.value, node.destination_area_asset_id)
             IN  IF area.raised # "" THEN area
                 ELSE IF area.value.default_node_index = NoDefaultNode
                      THEN Raise("IndexError")
                      \* a list subscript: positions 0..len-1
                      ELSE IF area.value.default_node_index >= Len(area.value.nodes)
                           THEN Raise("IndexError")
                           ELSE Found(area.value.nodes[area.value.default_node_index + 1])

RECURSIVE Flatten(_)
Flatten(seqs) ==
    IF seqs = <<>> THEN <<>> ELSE Head(seqs) \o Flatten(Tail(seqs))

\* GameDescription.all_nodes: the order consistency_check walks the nodes in.
all_nodes(the_game) ==
    Flatten([w \in DOMAIN the_game.worlds |->
                Flatten([a \in DOMAIN the_game.worlds[w].areas |->
                            the_game.worlds[w].areas[a].nodes])])

\* The games audited: one world of two areas.  The first area holds a dock
\* back into the second area; the second holds two docks (dock_index 0 and 1)
\* and a teleporter into the first.  Targets, the default node and the
\* reverse map vary; the first area can be padded with further plain nodes.
GameOf(back_dock, out_area, out_dock, tele_world, tele_area, default_node, out_mapped, padding) ==
    LET back == DockNode("back", 0, 20, back_dock)
        plain == GenericNode("plain")
        out == DockNode("out", 0, out_area, out_dock)
        tele == TeleporterNode("tele", tele_world, tele_area)
        side == DockNode("side", 1, 10, 0)
        pad == [i \in 1..padding |-> GenericNode("pad")]
        world == World(1, <<Area(10, default_node, <<back, plain>> \o pad),
                            Area(20, 0, <<out, tele, side>>)>>)
    IN  [worlds |-> <<world>>,
         nodes_to_world |->
             [node \in {back, plain, tele, side}
                           \cup (IF out_mapped THEN {out} ELSE {})
                           \cup (IF padding > 0 THEN {GenericNode("pad")} ELSE {})
                 |-> world]]

\* Small games with every combination of targets, and two games whose first
\* area is long enough to have a node at position NoDefaultNode.
Games ==
    {GameOf(back_dock, out_area, out_dock, tele_world, tele_area, default_node,
            out_mapped, 0) :
        back_dock \in {0, 1, 7}, out_area \in {10, 99}, out_dock \in {0, 7},
        tele_world \in {1, 9}, tele_area \in {10, 99},
        default_node \in {0, 1, 5, NoDefaultNode},
        out_mapped \in BOOLEAN}
      \cup {GameOf(0, 10, 0, 1, 10, default_node, TRUE, NoDefaultNode - 1) :
                default_node \in {1, NoDefaultNode}}

\* No resolve call has been made.
NoCall == [called |-> FALSE, node |-> <<>>, outcome |-> Found(<<>>)]

\* The graph variables while no audit is running.
GraphIdle ==
    /\ game = [worlds |-> <<>>, nodes_to_world |-> <<>>]
    /\ visited = 0
    /\ yielded = <<>>
    /\ status = "done"
    /\ resolution = NoCall

-----------------------------------------------------------------------------
(* Game session (randovania/server/game_session.py), as its tests in       *)
(* test/server/test_game_session.py pin it down.                           *)

\* database.User rows; NoUser is the None of generation_in_progress.
Users == {"The Name", "Other"}
NoUser == "None"
\* GameSessionState
GameSessionStates == {"SETUP", "IN_PROGRESS", "FINISHED"}
\* The None of layout_description_json, and the one description sent.
NoLayout == "None"
LayoutJson == "layout_description_json"

\* The fields of a GameSession row the admin actions read and write.
GameSession(state, generation_in_progress, layout_description_json) ==
    [state |-> state, generation_in_progress |-> generation_in_progress,
     layout_description_json |-> layout_description_json]

\* What a handler leaves behind: the saved row, whether it raised
\* InvalidAction, and the number of _emit_session_update calls.
Saved(row) == [session |-> row, outcome |-> "returned", emits |-> 1]
InvalidAction(row) == [session |-> row, outcome |-> "InvalidAction", emits |-> 0]

\* START_SESSION on a session in SETUP.  The test starts a session that has
\* a layout description; without one the verdict is not pinned (verdict).
start_session(row, verdict) ==
    IF row.layout_description_json = NoLayout /\ ~verdict
    THEN InvalidAction(row)
    ELSE Saved([row EXCEPT !.state = "IN_PROGRESS"])

finish_session_from_any_state(row) ==
    Saved([row EXCEPT !.state = "FINISHED"])

\* FINISH_SESSION
finish_session(row) ==
    IF row.state # "IN_PROGRESS"
    THEN InvalidAction(row)
    ELSE Saved([row EXCEPT !.state = "FINISHED"])

\* RESET_SESSION
reset_session(row) == InvalidAction(row)

update_layout_generation_taking_over(row, user, active, verdict) ==
    Saved([row EXCEPT !.generation_in_progress =
                          IF active THEN user ELSE NoUser])

\* UPDATE_LAYOUT_GENERATION.  The tests cover a free lock and a lock held by
\* another user; for the holder asking again the verdict is not pinned.
update_layout_generation(row, user, active, verdict) ==
    IF active
    THEN IF row.generation_in_progress = NoUser
         THEN Saved([row EXCEPT !.generation_in_progress = user])
         ELSE IF row.generation_in_progress = user /\ verdict
              THEN Saved(row)
              ELSE InvalidAction(row)
    ELSE Saved([row EXCEPT !.generation_in_progress = NoUser])

change_layout_description_from_anyone(row, user, description_json, verdict) ==
    IF description_json # NoLayout /\ row.layout_description_json # NoLayout
       /\ ~verdict
    THEN InvalidAction(row)
    ELSE Saved([row EXCEPT !.generation_in_progress = NoUser,
                           !.layout_description_json = description_json])

\* CHANGE_LAYOUT_DESCRIPTION.  _verify_no_layout_description is mocked in the
\* test that accepts a description, so its verdict on a session that already
\* has one is not pinned (verdict).
change_layout_description(row, user, description_json, verdict) ==
    IF description_json = NoLayout
    THEN Saved([row EXCEPT !.generation_in_progress = NoUser,
                           !.layout_description_json = NoLayout])
    ELSE IF row.generation_in_progress # user
         THEN InvalidAction(row)
         ELSE IF row.layout_description_json # NoLayout /\ ~verdict
              THEN InvalidAction(row)
              ELSE Saved([row EXCEPT !.generation_in_progress = NoUser,
                                     !.layout_description_json = description_json])

\* No admin action has been sent.
NoAdminCall ==
    [action |-> "", user |-> NoUser, active |-> FALSE,
     description_json |-> NoLayout,
     before |-> GameSession("SETUP", NoUser, NoLayout),
     outcome |-> "returned", emits |-> 0]

\* The session variables while no session exists.
NoSession == GameSession("", NoUser, NoLayout)
SessionIdle ==
    /\ session = NoSession
    /\ admin = NoAdminCall

\* The thread variable while no concurrent lookup is running.
ThreadsIdle == threads = <<>>

-----------------------------------------------------------------------------
(* SpecReq: a RequirementSet value taken through constructor, simplify     *)
(* and merge calls.                                                        *)

RECURSIVE SubsetsUpTo(_, _)
SubsetsUpTo(S, n) ==
    IF n = 0 THEN {{}}
    ELSE LET smaller == SubsetsUpTo(S, n - 1)
         IN  smaller \cup {s \cup {x} : s \in smaller, x \in S}

\* Authored conjunctions and candidate collections handed to the constructor.
RequirementLists == SubsetsUpTo(Requirements, MaxListLen)
Candidates == SubsetsUpTo(RequirementLists, MaxAlternatives)
\* Iterables handed to the constructor: any order, duplicates allowed.
Supplied == UNION {[1..n -> RequirementLists] : n \in 0..MaxAlternatives}

NoStatic == [res \in ReqResources |-> Absent]

\* The call that produced cur: its operands, the per-alternative results of
\* simplify (parts), the returned set (out) and, for satisfied, the returned
\* bool (value).
Op(op, self, other, static, input, out) ==
    [op |-> op, self |-> self, other |-> other, static |-> static,
     input |-> input,
     parts |-> IF op = "simplify" THEN NewAlternatives(self, static, ReqDatabase)
               ELSE <<>>,
     value |-> IF op = "satisfied" THEN RequirementSetSatisfied(self, static)
               ELSE FALSE,
     out |-> out]

\* No call is in progress: the caller holds cur.
Idle == Op("idle", {}, {}, NoStatic, <<>>, {})

\* The requirement variables while no RequirementSet is in use.
Unused == Op("unused", {}, {}, NoStatic, <<>>, {})
ReqIdle ==
    /\ cur = Impossible
    /\ last = Unused

ReqInit ==
    /\ cur = Impossible
    /\ last = Idle
    /\ PickupIdle
    /\ GraphIdle
    /\ CatalogIdle
    /\ SessionIdle
    /\ ThreadsIdle

\* The call returns; the caller keeps the returned set for further calls.
Return ==
    /\ last.op \notin {"idle", "unused"}
    /\ last' = Idle
    /\ UNCHANGED <<cur, pickupVars, graphVars, catalogVars, sessionVars, threadVars>>

MakeTrivial ==
    /\ last.op = "idle"
    /\ cur' = Trivial
    /\ last' = Op("trivial", {}, {}, NoStatic, <<{}>>, Trivial)
    /\ UNCHANGED <<pickupVars, graphVars, catalogVars, sessionVars, threadVars>>

MakeImpossible ==
    /\ last.op = "idle"
    /\ cur' = Impossible
    /\ last' = Op("impossible", {}, {}, NoStatic, <<>>, Impossible)
    /\ UNCHANGED <<pickupVars, graphVars, catalogVars, sessionVars, threadVars>>

Construct ==
    \E alternatives \in Supplied :
        /\ last.op = "idle"
        /\ cur' = RequirementSetInit(frozenset(alternatives))
        /\ last' = Op("init", {}, {}, NoStatic, alternatives, cur')
        /\ UNCHANGED <<pickupVars, graphVars, catalogVars, sessionVars, threadVars>>

\* Operands of further calls stay within the authored sizes.
WithinBounds(alternatives) ==
    /\ Cardinality(alternatives) <= MaxAlternatives
    /\ \A a \in alternatives : Cardinality(a) <= MaxListLen

Simplify ==
    /\ last.op = "idle"
    /\ WithinBounds(cur)
    /\ \E static_resources \in ResourceMappings :
        /\ cur' = RequirementSetSimplify(cur, static_resources, ReqDatabase)
        /\ last' = Op("simplify", cur, {}, static_resources, <<>>, cur')
        /\ UNCHANGED <<pickupVars, graphVars, catalogVars, sessionVars, threadVars>>

Merge ==
    /\ last.op = "idle"
    /\ WithinBounds(cur)
    /\ \E alternatives \in Candidates :
        LET other == RequirementSetInit(alternatives)
        IN  /\ cur' = RequirementSetMerge(cur, other)
            /\ last' = Op("merge", cur, other, NoStatic, <<>>, cur')
            /\ UNCHANGED <<pickupVars, graphVars, catalogVars, sessionVars, threadVars>>

ReqNext ==
    \/ MakeTrivial
    \/ MakeImpossible
    \/ Construct
    \/ Simplify
    \/ Merge
    \/ Return

SpecReq == ReqInit /\ [][ReqNext]_vars

-----------------------------------------------------------------------------
(* SpecSat: satisfied() of authored RequirementSets over item and damage   *)
(* resources with several amounts.                                         *)

SatResources == {ItemA, DamageA}
SatAmounts == {1, 2}
SatCounts == {0, 1, 2}

\* Thresholds and negated thresholds on the item, and on the damage resource.
SatRequirements ==
    [resource : {ItemA}, amount : SatAmounts, negate : BOOLEAN]
        \cup [resource : {DamageA}, amount : SatAmounts, negate : BOOLEAN]

\* CurrentResources over these resources: any count, or no key at all.
SatMappings == [SatResources -> SatCounts \cup {Absent}]

SatLists == SubsetsUpTo(SatRequirements, MaxListLen)
SatCandidates == SubsetsUpTo(SatLists, MaxAlternatives)

\* The caller holds any authored RequirementSet.
SatInit ==
    /\ cur \in {RequirementSetInit(alternatives) : alternatives \in SatCandidates}
    /\ last = Idle
    /\ PickupIdle
    /\ GraphIdle
    /\ CatalogIdle
    /\ SessionIdle
    /\ ThreadsIdle

\* cur.satisfied(current_resources)
Satisfied ==
    /\ last.op = "idle"
    \* the mappings drawn have an entry or Absent for every resource of cur
    /\ \A alternative \in cur : \A req \in alternative : req.resource \in SatResources
    /\ \E current_resources \in SatMappings :
        /\ last' = Op("satisfied", cur, {}, current_resources, <<>>, cur)
        /\ UNCHANGED <<cur, pickupVars, graphVars, catalogVars, sessionVars, threadVars>>

SatNext ==
    \/ MakeTrivial
    \/ MakeImpossible
    \/ Satisfied
    \/ Return

SpecSat == SatInit /\ [][SatNext]_vars

-----------------------------------------------------------------------------
(* SpecCatalog: get_by_type_and_index on ResourceDatabases.                *)

\* The resource of a type list with the given index; its name tells the type.
ResourceOf(resource_type, index) ==
    [cls |-> IF resource_type = "DAMAGE" THEN "Damage" ELSE "Simple",
     index |-> index, long_name |-> <<resource_type>>]

\* The indices of a type list, in list order.
IndexLists == <<<<>>, <<0>>, <<1, 0>>, <<47, 1, 2>>>>

\* Indices asked for.
Indices == {0, 1, 2, 47}

TypeOrder ==
    <<"ITEM", "EVENT", "TRICK", "DAMAGE", "VERSION", "MISC", "DIFFICULTY">>

\* The list of the k-th type in the catalog with the given shift.
TypeList(k, shift) ==
    LET indices == IndexLists[((k + shift) % Len(IndexLists)) + 1]
    IN  [i \in DOMAIN indices |-> ResourceOf(TypeOrder[k], indices[i])]

CatalogOf(shift) ==
    [item |-> TypeList(1, shift), event |-> TypeList(2, shift),
     trick |-> TypeList(3, shift), damage |-> TypeList(4, shift),
     version |-> TypeList(5, shift), misc |-> TypeList(6, shift),
     difficulty |-> TypeList(7, shift)]

CatalogChoices == {CatalogOf(shift) : shift \in 0..(Len(IndexLists) - 1)}

CatalogInit ==
    /\ fetched = NoFetch
    /\ ReqIdle
    /\ PickupIdle
    /\ GraphIdle
    /\ SessionIdle
    /\ ThreadsIdle

\* database.get_by_type_and_index(resource_type, index)
GetByTypeAndIndex ==
    \E database \in CatalogChoices : \E resource_type \in ResourceTypes :
        \E index \in Indices :
            /\ fetched' = [called |-> TRUE, database |-> database,
                           resource_type |-> resource_type, index |-> index,
                           outcome |-> get_by_type_and_index(database,
                                                             resource_type, index)]
            /\ UNCHANGED <<reqVars, pickupVars, graphVars, sessionVars, threadVars>>

CatalogNext == GetByTypeAndIndex

SpecCatalog == CatalogInit /\ [][CatalogNext]_vars

-----------------------------------------------------------------------------
(* SpecPickup: lookups on one PickupDatabase.                              *)

\* PickupDatabase.__init__: any tables, an empty cache.
PickupInit ==
    /\ tables \in [percent_less_items : PercentLessChoices,
                   direct_name : DirectNameChoices,
                   custom_mapping : CustomMappingChoices]
    /\ cache = [name \in PickupNames |-> NoEntry]
    /\ calls = <<>>
    /\ ReqIdle
    /\ GraphIdle
    /\ CatalogIdle
    /\ SessionIdle
    /\ ThreadsIdle

\* pickup_name_to_resource_gain(name, database)
Lookup ==
    /\ tables # NoPickupDatabase
    /\ Len(calls) < MaxCalls
    /\ \E name \in PickupNames : \E database \in PickupCatalogs :
        IF cache[name].some
        THEN /\ calls' = Append(calls,
                    [name |-> name, database |-> database, hit |-> TRUE,
                     gain |-> Returned(cache[name].value)])
             /\ UNCHANGED cache
        ELSE LET gain == Uncached(tables, name, database)
             IN  /\ calls' = Append(calls,
                        [name |-> name, database |-> database, hit |-> FALSE,
                         gain |-> gain])
                 /\ cache' = CacheAfter(cache, name, gain)
    /\ UNCHANGED <<tables, reqVars, graphVars, catalogVars, sessionVars, threadVars>>

PickupNext == Lookup

SpecPickup == PickupInit /\ [][PickupNext]_vars

-----------------------------------------------------------------------------
(* SpecGraph: consistency_check(game), one node of the walk per step.      *)

GraphInit ==
    /\ game \in Games
    /\ visited = 0
    /\ yielded = <<>>
    /\ status = "running"
    /\ resolution = NoCall
    /\ ReqIdle
    /\ PickupIdle
    /\ CatalogIdle
    /\ SessionIdle
    /\ ThreadsIdle

\* The body of the innermost loop for the next node.  An IndexError of the
\* resolution is caught and yielded; any other exception leaves the generator.
CheckNode ==
    /\ status = "running"
    /\ visited < Len(all_nodes(game))
    /\ LET node == all_nodes(game)[visited + 1]
           resolved == IF node.kind = "Dock" THEN resolve_dock_node(node, game)
                       ELSE IF node.kind = "Teleporter"
                            THEN resolve_teleporter_node(node, game)
                            ELSE Found(node)
       IN  /\ visited' = visited + 1
           /\ yielded' = IF resolved.raised = "IndexError"
                         THEN Append(yielded,
                                     <<node, IF node.kind = "Dock"
                                             THEN "Invalid dock connection"
                                             ELSE "Invalid teleporter connection">>)
                         ELSE yielded
           /\ status' = IF resolved.raised \notin {"", "IndexError"}
                        THEN resolved.raised
                        ELSE "running"
    /\ UNCHANGED <<game, resolution, reqVars, pickupVars, catalogVars, sessionVars, threadVars>>

\* The loops are exhausted: the generator stops.
Finish ==
    /\ status = "running"
    /\ visited = Len(all_nodes(game))
    /\ status' = "done"
    /\ UNCHANGED <<game, visited, yielded, resolution, reqVars, pickupVars, catalogVars, sessionVars, threadVars>>

\* A caller resolves the link of one Dock node of the game.
ResolveDock ==
    \E k \in DOMAIN all_nodes(game) :
        LET node == all_nodes(game)[k]
        IN  /\ node.kind = "Dock"
            /\ resolution' = [called |-> TRUE, node |-> node,
                              outcome |-> resolve_dock_node(node, game)]
            /\ UNCHANGED <<game, visited, yielded, status, reqVars, pickupVars, catalogVars, sessionVars, threadVars>>

\* A caller resolves the link of one Teleporter node of the game.
ResolveTeleporter ==
    \E k \in DOMAIN all_nodes(game) :
        LET node == all_nodes(game)[k]
        IN  /\ node.kind = "Teleporter"
            /\ resolution' = [called |-> TRUE, node |-> node,
                              outcome |-> resolve_teleporter_node(node, game)]
            /\ UNCHANGED <<game, visited, yielded, status, reqVars, pickupVars, catalogVars, sessionVars, threadVars>>

GraphNext == CheckNode \/ Finish \/ ResolveDock \/ ResolveTeleporter

SpecGraph == GraphInit /\ [][GraphNext]_vars

-----------------------------------------------------------------------------
(* SpecCore: the calls of the three parts together.  A caller works with   *)
(* RequirementSets, with one PickupDatabase or with one GameDescription;   *)
(* the calls of the parts not in use are not enabled.                      *)

CoreInit == ReqInit \/ PickupInit \/ GraphInit

CoreNext == ReqNext \/ Satisfied \/ PickupNext \/ GraphNext

SpecCore == CoreInit /\ [][CoreNext]_vars

-----------------------------------------------------------------------------
(* SpecSession: admin actions sent by the admins of one game session.      *)
(* START_SESSION, RESET_SESSION, UPDATE_LAYOUT_GENERATION and              *)
(* CHANGE_LAYOUT_DESCRIPTION are taken on a session in SETUP, where the    *)
(* tests exercise them; FINISH_SESSION is taken in every state.            *)

\* create_game_session: a session in SETUP, no generation, no layout.
SessionInit ==
    /\ session = GameSession("SETUP", NoUser, NoLayout)
    /\ admin = NoAdminCall
    /\ ReqIdle
    /\ PickupIdle
    /\ GraphIdle
    /\ CatalogIdle
    /\ ThreadsIdle

\* game_session_admin_session(sio, session_id, action, arg) by user: the
\* handler's result is saved and the call recorded.
AdminCall(action, user, active, description_json, result) ==
    /\ session' = result.session
    /\ admin' = [action |-> action, user |-> user, active |-> active,
                 description_json |-> description_json, before |-> session,
                 outcome |-> result.outcome, emits |-> result.emits]
    /\ UNCHANGED <<reqVars, pickupVars, graphVars, catalogVars, threadVars>>

StartSession ==
    /\ session.state = "SETUP"
    /\ \E user \in Users : \E verdict \in BOOLEAN :
        AdminCall("START_SESSION", user, FALSE, NoLayout,
                  start_session(session, verdict))

FinishSession ==
    /\ session.state \in GameSessionStates
    /\ \E user \in Users :
        AdminCall("FINISH_SESSION", user, FALSE, NoLayout, finish_session(session))

ResetSession ==
    /\ session.state = "SETUP"
    /\ \E user \in Users :
        AdminCall("RESET_SESSION", user, FALSE, NoLayout, reset_session(session))

UpdateLayoutGeneration ==
    /\ session.state = "SETUP"
    /\ \E user \in Users : \E active \in BOOLEAN : \E verdict \in BOOLEAN :
        AdminCall("UPDATE_LAYOUT_GENERATION", user, active, NoLayout,
                  update_layout_generation(session, user, active, verdict))

ChangeLayoutDescription ==
    /\ session.state = "SETUP"
    /\ \E user \in Users : \E description_json \in {NoLayout, LayoutJson} :
        \E verdict \in BOOLEAN :
            AdminCall("CHANGE_LAYOUT_DESCRIPTION", user, FALSE, description_json,
                      change_layout_description(session, user, description_json,
                                                verdict))

SessionNext ==
    \/ StartSession
    \/ FinishSession
    \/ ResetSession
    \/ UpdateLayoutGeneration
    \/ ChangeLayoutDescription

SpecSession == SessionInit /\ [][SessionNext]_vars

-----------------------------------------------------------------------------
(* SpecThreads: two callers look one name up on one PickupDatabase, with   *)
(* one catalog, at the same time.  A step is one statement of              *)
(* pickup_name_to_resource_gain; the steps of the two callers interleave   *)
(* in every order.                                                         *)

Callers == {"first", "second"}

\* A caller about to enter pickup_name_to_resource_gain(name, database).
Entering(name, database) ==
    [pc |-> "test", name |-> name, database |-> database, result |-> <<>>,
     pending |-> <<>>, starting_size |-> 0, gain |-> Raised("")]

ThreadsInit ==
    /\ tables \in [percent_less_items : PercentLessChoices,
                   direct_name : DirectNameChoices,
                   custom_mapping : CustomMappingChoices]
    /\ cache = [name \in PickupNames |-> NoEntry]
    /\ calls = <<>>
    /\ \E name \in PickupNames : \E database \in PickupCatalogs :
          threads = [caller \in Callers |-> Entering(name, database)]
    /\ ReqIdle
    /\ GraphIdle
    /\ CatalogIdle
    /\ SessionIdle

\* The caller moves on; nothing but its own frame and the cache can change.
Moves(caller, frame, the_cache) ==
    /\ threads' = [threads EXCEPT ![caller] = frame]
    /\ cache' = the_cache
    /\ UNCHANGED <<tables, calls, reqVars, graphVars, catalogVars, sessionVars>>

\* The call ends by raising.
Raises(caller, error) ==
    Moves(caller, [threads[caller] EXCEPT !.pc = "done", !.gain = Raised(error)],
          cache)

\* Line 144: if name in self._cache
TestCache ==
    \E caller \in DOMAIN threads :
        LET self == threads[caller]
        IN  /\ self.pc = "test"
            /\ Moves(caller,
                     [self EXCEPT !.pc = IF cache[self.name].some THEN "hit"
                                         ELSE "percentage"],
                     cache)

\* Line 145: return self._cache[name]
ReturnCached ==
    \E caller \in DOMAIN threads :
        LET self == threads[caller]
        IN  /\ self.pc = "hit"
            /\ Moves(caller,
                     [self EXCEPT !.pc = "done",
                                  !.gain = Returned(cache[self.name].value)],
                     cache)

\* Lines 150-155: result = [], and the item-percentage entry.
AppendPercentage ==
    \E caller \in DOMAIN threads :
        LET self == threads[caller]
            result == PercentageEntry(tables, self.name, self.database)
        IN  /\ self.pc = "percentage"
            /\ IF /\ self.name \notin tables.percent_less_items
                  /\ item_percentage(self.database) = NotFound
               THEN Raises(caller, "IndexNotFound")
               ELSE Moves(caller,
                          [self EXCEPT !.result = result,
                                       !.pc = IF self.name \in DOMAIN tables.direct_name
                                              THEN "direct" ELSE "custom"],
                          CacheWhileBuilding(cache, self.name, result))

\* Lines 157-165: the direct_name branch up to its append.
AppendDirect ==
    \E caller \in DOMAIN threads :
        LET self == threads[caller]
            item_database == get_by_type(self.database, "ITEM")
            i == FirstWithLongName(item_database, self.name)
            result == Append(self.result,
                             <<item_database[i], tables.direct_name[self.name]>>)
        IN  /\ self.pc = "direct"
            /\ IF i = 0
               THEN Raises(caller, "NotFoundInDatabase")
               ELSE Moves(caller, [self EXCEPT !.result = result, !.pc = "store"],
                          CacheWhileBuilding(cache, self.name, result))

\* Lines 167-170: the first pattern that matches, or line 184.
MatchPattern ==
    \E caller \in DOMAIN threads :
        LET self == threads[caller]
            item_database == get_by_type(self.database, "ITEM")
            m == FirstMatch(tables.custom_mapping, self.name)
            found == ResolveValues(item_database, tables.custom_mapping[m].values)
        IN  /\ self.pc = "custom"
            /\ IF m = 0
               THEN Raises(caller, "Unknown")
               ELSE Moves(caller,
                          [self EXCEPT !.starting_size = Len(self.result),
                                       !.pending = found,
                                       !.pc = IF found = <<>> THEN "check"
                                              ELSE "append"],
                          cache)

\* Lines 172-174: one round of the loop that appends.
AppendEntry ==
    \E caller \in DOMAIN threads :
        LET self == threads[caller]
            result == Append(self.result, Head(self.pending))
        IN  /\ self.pc = "append"
            /\ Moves(caller,
                     [self EXCEPT !.result = result,
                                  !.pending = Tail(self.pending),
                                  !.pc = IF Tail(self.pending) = <<>> THEN "check"
                                         ELSE "append"],
                     CacheWhileBuilding(cache, self.name, result))

\* Lines 176-181: the count of appended entries against len(values).
CheckCount ==
    \E caller \in DOMAIN threads :
        LET self == threads[caller]
            m == FirstMatch(tables.custom_mapping, self.name)
            values == tables.custom_mapping[m].values
        IN  /\ self.pc = "check"
            /\ IF Len(self.result) - self.starting_size # Cardinality(DOMAIN values)
               THEN Raises(caller, "ResourceNotFound")
               ELSE Moves(caller, [self EXCEPT !.pc = "store"], cache)

\* Line 147, in do_return: self._cache[name] = value
StoreResult ==
    \E caller \in DOMAIN threads :
        LET self == threads[caller]
        IN  /\ self.pc = "store"
            /\ Moves(caller, [self EXCEPT !.pc = "return"],
                     CacheStore(cache, self.name, self.result))

\* Line 148, in do_return: return value
ReturnResult ==
    \E caller \in DOMAIN threads :
        LET self == threads[caller]
        IN  /\ self.pc = "return"
            /\ Moves(caller,
                     [self EXCEPT !.pc = "done", !.gain = Returned(self.result)],
                     cache)

ThreadsNext ==
    \/ TestCache
    \/ ReturnCached
    \/ AppendPercentage
    \/ AppendDirect
    \/ MatchPattern
    \/ AppendEntry
    \/ CheckCount
    \/ StoreResult
    \/ ReturnResult

SpecThreads == ThreadsInit /\ [][ThreadsNext]_vars

-----------------------------------------------------------------------------
(* Properties of the requirement algebra.                                  *)

\* Full resource mappings r, and "r agrees with S on every resource S pins".
FullMappings == [ReqResources -> Counts]

Agrees(r, static_resources) ==
    \A res \in ReqResources :
        static_resources[res] # Absent => r[res] = static_resources[res]

StrictSubset(a, b) == a \subseteq b /\ a # b

\* C1: every RequirementSet reached through constructor, simplify and merge
\* calls has no two alternatives of which one is a strict subset of the other.
DominanceInvariant ==
    \A a \in cur : \A b \in cur : ~StrictSubset(a, b)

\* A merge whose cross product held a dominated union that was discarded.
DominanceWitness ==
    /\ last.op = "merge"
    /\ Cardinality(cur) >= 2
    /\ \E a \in last.self : \E b \in last.other :
           /\ (a \cup b) \notin cur
           /\ \E c \in cur : StrictSubset(c, a \cup b)

\* C2: X.merge(Y).satisfied(r) = (X.satisfied(r) and Y.satisfied(r)) for all r.
MergeDistributivity ==
    last.op = "merge" =>
        \A r \in FullMappings :
            RequirementSetSatisfied(last.out, r)
                <=> (RequirementSetSatisfied(last.self, r)
                        /\ RequirementSetSatisfied(last.other, r))

Contradictory(list) ==
    \E p \in list : \E q \in list :
        p.resource = q.resource /\ p.amount = q.amount /\ p.negate # q.negate

\* A merge of two two-alternative sets in which one union is contradictory
\* and the result is still satisfiable.
MergeDistributivityWitness ==
    /\ last.op = "merge"
    /\ Cardinality(last.self) = 2
    /\ Cardinality(last.other) = 2
    /\ \E a \in last.self : \E b \in last.other :
           ~Contradictory(a) /\ ~Contradictory(b) /\ Contradictory(a \cup b)
    /\ \E r \in FullMappings : RequirementSetSatisfied(last.out, r)

\* C15: the constructor keeps a supplied conjunction exactly when no other
\* supplied conjunction is a strict subset of it, and the same candidates
\* supplied in another order or with duplicates give an equal set.
ConstructorKeepsMinimal ==
    last.op = "init" =>
        LET supplied == frozenset(last.input)
        IN  /\ \A c \in RequirementLists :
                  c \in last.out <=>
                      /\ c \in supplied
                      /\ ~\E other \in supplied : StrictSubset(other, c)
            /\ \A n \in 0..MaxAlternatives : \A again \in [1..n -> supplied] :
                  frozenset(again) = supplied =>
                      RequirementSetInit(frozenset(again)) = last.out

\* {A, B} supplied before {A}: only {A} is kept.
ConstructorKeepsMinimalWitness ==
    /\ last.op = "init"
    /\ Len(last.input) = 2
    /\ StrictSubset(last.input[2], last.input[1])
    /\ last.input[2] # {}
    /\ last.out = {last.input[2]}

\* One conjunction supplied twice: the set holds it once.
ConstructorDuplicateWitness ==
    /\ last.op = "init"
    /\ Len(last.input) = 2
    /\ last.input[1] = last.input[2]
    /\ last.out = {last.input[1]}

\* C16: for every supplied collection C and every resource mapping r, the
\* constructed set is satisfied by r exactly when some conjunction of the
\* un-pruned C is satisfied by r.
PruningKeepsMeaning ==
    last.op = "init" =>
        \A r \in ResourceMappings :
            RequirementSetSatisfied(last.out, r)
                <=> \E c \in frozenset(last.input) : RequirementListSatisfied(c, r)

\* A supplied conjunction was pruned although some mapping satisfies it.
PruningKeepsMeaningWitness ==
    /\ last.op = "init"
    /\ \E c \in frozenset(last.input) :
          /\ c \notin last.out
          /\ \E r \in ResourceMappings : RequirementListSatisfied(c, r)

\* C17: trivial() holds exactly the empty conjunction and is satisfied by
\* every resource mapping, the empty one included; impossible() holds no
\* alternative and is satisfied by none.
TrivialAndImpossible ==
    /\ last.op = "trivial" => last.out = {{}} /\ cur = {{}}
    /\ last.op = "impossible" => last.out = {} /\ cur = {}
    /\ (last.op = "satisfied" /\ last.self = {{}}) => last.value
    /\ (last.op = "satisfied" /\ last.self = {}) => ~last.value

\* trivial() evaluated against the empty mapping.
TrivialWitness ==
    /\ last.op = "satisfied"
    /\ last.self = {{}}
    /\ \A res \in SatResources : last.static[res] = Absent
    /\ last.value

\* impossible() evaluated against a mapping that holds the item twice.
ImpossibleWitness ==
    /\ last.op = "satisfied"
    /\ last.self = {}
    /\ last.static[ItemA] = 2
    /\ ~last.value

\* count(resource) of a mapping: 0 for a resource that is no key of it.
CountOf(r, resource) == IF r[resource] = Absent THEN 0 ELSE r[resource]

\* A predicate on a non-damage resource holds iff (count >= amount) differs
\* from negate; a predicate on a damage resource is not evaluated and holds.
PredicateHolds(p, r) ==
    IF p.resource.cls = "Damage" THEN TRUE
    ELSE (CountOf(r, p.resource) >= p.amount) # p.negate

\* C18: satisfied always returns a bool: that of a RequirementSet is true iff
\* at least one alternative has every member predicate holding, where a
\* predicate on a non-damage resource holds iff (count >= amount) differs
\* from negate and an absent resource counts as 0.
SatisfiedIsAnyOfAll ==
    last.op = "satisfied" =>
        /\ last.value \in BOOLEAN
        /\ last.value <=>
               \E alternative \in last.self :
                   \A p \in alternative : PredicateHolds(p, last.static)

\* A set of two alternatives: one fails on a negated threshold that the
\* count meets exactly, the other holds through an absent resource.
SatisfiedWitness ==
    /\ last.op = "satisfied"
    /\ Cardinality(last.self) = 2
    /\ last.value
    /\ \E failing \in last.self : \E p \in failing :
          /\ p.resource = ItemA /\ p.negate /\ p.amount = last.static[ItemA]
          /\ ~PredicateHolds(p, last.static)
    /\ \E holding \in last.self :
          /\ \A p \in holding : PredicateHolds(p, last.static)
          /\ \E p \in holding : last.static[p.resource] = Absent

\* No alternative holds: the answer is the value false.
UnsatisfiedWitness ==
    /\ last.op = "satisfied"
    /\ Cardinality(last.self) = 2
    /\ ~last.value
    /\ \A res \in SatResources : last.static[res] = Absent

\* C21: a predicate on a damage resource is satisfied under every resource
\* mapping, for every amount and both values of negate: a set with an
\* alternative made of damage predicates only is satisfied, and the answer
\* for any set is the one its alternatives give without their damage
\* predicates.
DamageAlwaysSatisfied ==
    last.op = "satisfied" =>
        /\ (\E alternative \in last.self :
                \A p \in alternative : p.resource.cls = "Damage") => last.value
        /\ last.value <=>
               \E alternative \in last.self :
                   \A p \in {q \in alternative : q.resource.cls # "Damage"} :
                       (CountOf(last.static, p.resource) >= p.amount) # p.negate

\* A single negated damage predicate of amount 2, evaluated against a mapping
\* that holds the damage resource twice and against which the threshold
\* reading of the predicate is false.
DamageAlwaysSatisfiedWitness ==
    /\ last.op = "satisfied"
    /\ last.value
    /\ last.static[DamageA] = 2
    /\ \E p \in SatRequirements :
          /\ p.resource = DamageA /\ p.negate /\ p.amount = 2
          /\ last.self = {{p}}

\* A single damage threshold evaluated against the empty mapping.
DamageAbsentWitness ==
    /\ last.op = "satisfied"
    /\ last.value
    /\ \A res \in SatResources : last.static[res] = Absent
    /\ \E p \in SatRequirements :
          /\ p.resource = DamageA /\ ~p.negate
          /\ last.self = {{p}}

\* C3 as stated: the simplified set and the original agree on every full
\* mapping r consistent with S, whenever the result is not the impossible set.
SimplifySoundness ==
    (last.op = "simplify" /\ last.out # Impossible) =>
        \A r \in FullMappings :
            Agrees(r, last.static) =>
                (RequirementSetSatisfied(last.out, r)
                    <=> RequirementSetSatisfied(last.self, r))

\* r treats the sentinels as simplify does: it satisfies every predicate of
\* the alternatives on the trivial resource and none on the impossible one.
HonoursSentinels(r, alternatives) ==
    \A alternative \in alternatives : \A item \in alternative :
        /\ item.resource = trivial_resource(ReqDatabase)
              => IndividualRequirementSatisfied(item, r)
        /\ item.resource = impossible_resource(ReqDatabase)
              => ~IndividualRequirementSatisfied(item, r)

\* C3 amended: the same, for the mappings r that also satisfy every
\* trivial-resource predicate of X and no impossible-resource predicate of X.
SimplifySoundnessSentinels ==
    (last.op = "simplify" /\ last.out # Impossible) =>
        \A r \in FullMappings :
            (Agrees(r, last.static) /\ HonoursSentinels(r, last.self)) =>
                (RequirementSetSatisfied(last.out, r)
                    <=> RequirementSetSatisfied(last.self, r))

\* A simplify that collapsed one alternative on a failing pinned predicate,
\* dropped a passing pinned predicate from another and kept a predicate.
SimplifySoundnessWitness ==
    /\ last.op = "simplify"
    /\ last.out # Impossible
    /\ last.out # Trivial
    /\ \E a \in last.self : last.parts[a].none
    /\ \E a \in last.self :
           /\ ~last.parts[a].none
           /\ \E item \in a \ last.parts[a].items :
                  last.static[item.resource] # Absent

\* C4 as stated: an alternative that simplify collapses to None is satisfied
\* by no mapping r consistent with S.
CollapsedNeverSatisfiable ==
    last.op = "simplify" =>
        \A a \in last.self :
            last.parts[a].none =>
                \A r \in FullMappings :
                    Agrees(r, last.static) => ~RequirementListSatisfied(a, r)

\* C4 amended: a collapsed alternative is satisfied by no mapping r that is
\* consistent with S and satisfies none of its impossible-resource predicates.
CollapsedNeverSatisfiableSentinels ==
    last.op = "simplify" =>
        \A a \in last.self :
            last.parts[a].none =>
                \A r \in FullMappings :
                    (Agrees(r, last.static) /\ HonoursSentinels(r, {a}))
                        => ~RequirementListSatisfied(a, r)

\* A collapse caused by a pinned predicate that fails under S, in an
\* alternative that does not mention the impossible resource.
CollapsedWitness ==
    /\ last.op = "simplify"
    /\ \E a \in last.self :
           /\ last.parts[a].none
           /\ \A item \in a : item.resource # impossible_resource(ReqDatabase)
           /\ \E r \in FullMappings : RequirementListSatisfied(a, r)

\* Whether simplify is to collapse a conjunction under S, and what it is to
\* keep of it otherwise.
Collapses(list, static_resources) ==
    \E p \in list :
        \/ p.resource = ImpossibleRes
        \/ /\ static_resources[p.resource] # Absent
           /\ ~PredicateHolds(p, static_resources)

Kept(list, static_resources) ==
    {p \in list : static_resources[p.resource] = Absent /\ p.resource # TrivialRes}

\* The subset-minimal members of a collection of conjunctions.
MinimalOf(lists) ==
    {a \in lists : ~\E b \in lists : StrictSubset(b, a)}

\* C19: RequirementList.simplify returns None iff the list has a predicate on
\* the impossible resource or one whose resource is pinned in S and that
\* fails under S; otherwise it returns exactly the predicates whose resource
\* is neither pinned nor the trivial resource.  RequirementSet.simplify is the
\* constructor applied to the results that are not None.
SimplifyCharacterised ==
    last.op = "simplify" =>
        /\ \A alternative \in last.self :
              /\ last.parts[alternative].none
                     <=> Collapses(alternative, last.static)
              /\ ~Collapses(alternative, last.static) =>
                     last.parts[alternative] = Some(Kept(alternative, last.static))
        /\ last.out = MinimalOf({Kept(alternative, last.static) :
                                    alternative \in {a \in last.self :
                                        ~Collapses(a, last.static)}})

\* One alternative collapses on a pinned predicate that fails, without a
\* predicate on the impossible resource; another is returned with a predicate.
SimplifyCharacterisedWitness ==
    /\ last.op = "simplify"
    /\ \E a \in last.self :
          /\ last.parts[a].none
          /\ \A p \in a : p.resource # ImpossibleRes
    /\ \E a \in last.self :
          /\ ~last.parts[a].none
          /\ last.parts[a].items # {}

\* An alternative loses a pinned predicate that passes and keeps an unpinned
\* one.
SimplifyDropsWitness ==
    /\ last.op = "simplify"
    /\ \E a \in last.self :
          /\ ~last.parts[a].none
          /\ last.parts[a].items # {}
          /\ \E p \in a : last.static[p.resource] # Absent

\* The simplified alternatives are pruned again: one result is dropped for
\* another that is a strict subset of it.
SimplifyPrunesWitness ==
    /\ last.op = "simplify"
    /\ \E a \in last.self :
          /\ ~last.parts[a].none
          /\ last.parts[a].items \notin last.out

\* C20: the alternatives of X.merge(Y) are exactly the subset-minimal members
\* of {a \cup b : a in X, b in Y}, so there are at most |X| * |Y| of them, in
\* every merge of a chain of merges.
MergeIsMinimalCrossProduct ==
    last.op = "merge" =>
        /\ last.out = MinimalOf({a \cup b : a \in last.self, b \in last.other})
        /\ cur = last.out
        /\ Cardinality(last.out)
               <= Cardinality(last.self) * Cardinality(last.other)

\* A merge of two sets of two alternatives in which a union was pruned.
MergeIsMinimalWitness ==
    /\ last.op = "merge"
    /\ Cardinality(last.self) = 2
    /\ Cardinality(last.other) = 2
    /\ \E a \in last.self : \E b \in last.other : (a \cup b) \notin last.out
    /\ last.out # {}

\* A merge that keeps all |X| * |Y| unions.
MergeFullProductWitness ==
    /\ last.op = "merge"
    /\ Cardinality(last.self) = 2
    /\ Cardinality(last.other) = 2
    /\ Cardinality(last.out) = 4

\* The RequirementSets the constructor builds from authored candidates.
Constructed == {RequirementSetInit(alternatives) : alternatives \in Candidates}

\* C28: merge is commutative, associative and idempotent, trivial() is its
\* identity and impossible() its zero: for the operands X and Y of every merge
\* made and every constructed Z, X.merge(Y) == Y.merge(X),
\* X.merge(Y).merge(Z) == X.merge(Y.merge(Z)), X.merge(X) == X,
\* X.merge(trivial()) == X and X.merge(impossible()) == impossible().
MergeIsCommutativeMonoid ==
    last.op = "merge" =>
        LET X == last.self
            Y == last.other
        IN  /\ last.out = RequirementSetMerge(Y, X)
            /\ \A Z \in Constructed :
                  RequirementSetMerge(last.out, Z)
                      = RequirementSetMerge(X, RequirementSetMerge(Y, Z))
            /\ X = Y => last.out = X
            /\ Y = Trivial => last.out = X
            /\ Y = Impossible => last.out = Impossible
            /\ X = Trivial => last.out = Y
            /\ X = Impossible => last.out = Impossible

\* A merge of two different sets of two alternatives, neither of them
\* trivial() or impossible(), with a result that is neither operand.
MergeIsCommutativeMonoidWitness ==
    /\ last.op = "merge"
    /\ Cardinality(last.self) = 2
    /\ Cardinality(last.other) = 2
    /\ last.self # last.other
    /\ last.out \notin {last.self, last.other, Trivial, Impossible}

\* A set of two alternatives merged with itself, with trivial() and with
\* impossible().
MergeWithItselfWitness ==
    /\ last.op = "merge"
    /\ Cardinality(last.self) = 2
    /\ last.other = last.self
    /\ last.out = last.self

MergeWithTrivialWitness ==
    /\ last.op = "merge"
    /\ Cardinality(last.self) = 2
    /\ last.other = Trivial
    /\ last.out = last.self

MergeWithImpossibleWitness ==
    /\ last.op = "merge"
    /\ Cardinality(last.self) = 2
    /\ last.other = Impossible
    /\ last.out = Impossible

-----------------------------------------------------------------------------
(* Frame properties.                                                       *)

\* C23: no call changes the world graph or the pickup tables; the cache
\* changes only in a pickup lookup, and only at the name looked up; satisfied
\* leaves the set it is called on as it was, simplify and merge are handed
\* the caller's set as it was, and the calls on the world graph leave the
\* requirement and pickup values alone.
CacheOnlyState ==
    [][/\ game' = game
       /\ tables' = tables
       /\ cache' # cache =>
             /\ Len(calls') = Len(calls) + 1
             /\ \A name \in PickupNames \ {calls'[Len(calls')].name} :
                   cache'[name] = cache[name]
       /\ calls' # calls => cur' = cur /\ last' = last
       /\ (last' # last /\ last'.op = "satisfied") =>
             cur' = cur /\ last'.self = cur
       /\ (last' # last /\ last'.op \in {"simplify", "merge"}) =>
             last'.self = cur
       /\ (visited' # visited \/ status' # status \/ resolution' # resolution
              \/ yielded' # yielded) =>
             cur' = cur /\ last' = last /\ calls' = calls]_vars

\* A lookup has filled a second cache entry next to one that differs from it.
CacheOnlyStateWitness ==
    /\ Len(calls) = 2
    /\ calls[1].name # calls[2].name
    /\ cache[calls[1].name].some
    /\ cache[calls[2].name].some
    /\ cache[calls[1].name].value # cache[calls[2].name].value
    /\ cache[calls[1].name].value = calls[1].gain.result

\* satisfied has been called on a set with alternatives, which the caller
\* still holds.
SatisfiedFrameWitness ==
    /\ last.op = "satisfied"
    /\ last.self = cur
    /\ Cardinality(cur) = 2
    /\ last.value

\* The audit has gone through all nodes of a game and yielded.
GraphFrameWitness ==
    /\ status = "done"
    /\ Len(yielded) >= 1
    /\ game.worlds # <<>>

-----------------------------------------------------------------------------
(* Properties of the resource catalog.                                     *)

\* The resources in the catalog list of the type asked for.
ListAskedFor ==
    LET info_list == get_by_type(fetched.database, fetched.resource_type)
    IN  {info_list[i] : i \in DOMAIN info_list}

\* C22: for an index present in the catalog list of the type,
\* get_by_type_and_index returns a resource of that list with that index; for
\* an index absent from the list the lookup fails and returns no resource.
CatalogLookup ==
    fetched.called =>
        IF \E info \in ListAskedFor : info.index = fetched.index
        THEN /\ fetched.outcome \in ListAskedFor
             /\ fetched.outcome.index = fetched.index
        ELSE fetched.outcome = NotFound

\* An index found behind other entries of its list, in a catalog whose other
\* lists hold resources with the same index.
CatalogLookupWitness ==
    /\ fetched.called
    /\ fetched.outcome # NotFound
    /\ fetched.outcome.index = fetched.index
    /\ get_by_type(fetched.database, fetched.resource_type)[1] # fetched.outcome
    /\ \E other \in ResourceTypes \ {fetched.resource_type} :
          \E i \in DOMAIN get_by_type(fetched.database, other) :
              get_by_type(fetched.database, other)[i].index = fetched.index

\* An index missing from a list that is not empty, while another list of the
\* catalog has it.
CatalogLookupFailsWitness ==
    /\ fetched.called
    /\ fetched.outcome = NotFound
    /\ ListAskedFor # {}
    /\ \E other \in ResourceTypes \ {fetched.resource_type} :
          \E i \in DOMAIN get_by_type(fetched.database, other) :
              get_by_type(fetched.database, other)[i].index = fetched.index

-----------------------------------------------------------------------------
(* Properties of the pickup model.                                         *)

\* The lookups that went past the cache and those resolved by a rule kind.
Computed == {i \in DOMAIN calls : ~calls[i].hit}
ViaDirect == {i \in Computed : calls[i].name \in DOMAIN tables.direct_name}
MatchingPatterns(name) ==
    {j \in DOMAIN tables.custom_mapping : ReMatch(tables.custom_mapping[j].pattern, name)}
ViaCustom ==
    {i \in Computed : /\ calls[i].name \notin DOMAIN tables.direct_name
                      /\ MatchingPatterns(calls[i].name) # {}}

ItemsOf(i) == calls[i].database.item
CatalogItems(i) == {ItemsOf(i)[k] : k \in DOMAIN ItemsOf(i)}

\* The target table of the earliest declared pattern that matches the name.
EarliestValues(i) ==
    LET hits == MatchingPatterns(calls[i].name)
    IN  tables.custom_mapping[CHOOSE j \in hits : \A k \in hits : j <= k].values

\* The implicit percentage entry of a lookup, and the entries after it.
ImplicitLen(i) == IF calls[i].name \in tables.percent_less_items THEN 0 ELSE 1
Entries(i) ==
    LET result == calls[i].gain.result
    IN  {result[k] : k \in (ImplicitLen(i) + 1)..Len(result)}

\* The entries a target table stands for in the catalog of lookup i.
EntriesFor(values, i) ==
    {<<info, values[info.long_name]>> :
        info \in {x \in CatalogItems(i) : x.long_name \in DOMAIN values}}

\* C6: a lookup resolved through custom_mapping appends the resources of the
\* first declared pattern that matches, and nothing of a later one; when that
\* first pattern fails the count check, no later pattern is tried.
FirstMatchWins ==
    \A i \in ViaCustom :
        /\ calls[i].gain.outcome = "returned" =>
               /\ Entries(i) = EntriesFor(EarliestValues(i), i)
               /\ Len(calls[i].gain.result) =
                      ImplicitLen(i) + Cardinality(EntriesFor(EarliestValues(i), i))
        /\ calls[i].gain.outcome = "raised" =>
               /\ calls[i].gain.error = "ResourceNotFound"
               /\ Cardinality(EntriesFor(EarliestValues(i), i))
                      # Cardinality(DOMAIN EarliestValues(i))

\* A returned lookup whose name matches two patterns that stand for
\* different entries.
FirstMatchWinsWitness ==
    \E i \in ViaCustom :
        /\ calls[i].gain.outcome = "returned"
        /\ \E j \in MatchingPatterns(calls[i].name) :
              /\ EntriesFor(tables.custom_mapping[j].values, i) # Entries(i)
              /\ Cardinality(EntriesFor(tables.custom_mapping[j].values, i))
                     = Cardinality(DOMAIN tables.custom_mapping[j].values)

MissingKeys(values, i) ==
    {key \in DOMAIN values : \A info \in CatalogItems(i) : info.long_name # key}

\* C7: a lookup resolved through custom_mapping raises the data-integrity
\* error exactly when a key of the matched target table names no catalog
\* item; otherwise every key yields exactly one entry with the table's amount.
DataIntegrityExact ==
    \A i \in ViaCustom :
        LET values == EarliestValues(i)
            result == calls[i].gain.result
        IN  /\ (calls[i].gain.outcome = "raised")
                   <=> (MissingKeys(values, i) # {})
            /\ calls[i].gain.outcome = "raised"
                   => calls[i].gain.error = "ResourceNotFound"
            /\ calls[i].gain.outcome = "returned" =>
                   \A key \in DOMAIN values :
                       Cardinality({k \in (ImplicitLen(i) + 1)..Len(result) :
                                       /\ result[k][1].long_name = key
                                       /\ result[k][2] = values[key]}) = 1

\* C8: a lookup of a key of direct_name appends exactly (the first catalog
\* item of that long name, direct_name[name]) and returns; with no such item
\* it raises the not-found error, whatever custom_mapping holds.
DirectNameOnly ==
    \A i \in ViaDirect :
        LET name == calls[i].name
            named == {k \in DOMAIN ItemsOf(i) : ItemsOf(i)[k].long_name = name}
            result == calls[i].gain.result
        IN  IF named = {}
            THEN /\ calls[i].gain.outcome = "raised"
                 /\ calls[i].gain.error = "NotFoundInDatabase"
            ELSE /\ calls[i].gain.outcome = "returned"
                 /\ Len(result) = ImplicitLen(i) + 1
                 /\ result[Len(result)] =
                        <<ItemsOf(i)[CHOOSE k \in named : \A n \in named : k <= n],
                          tables.direct_name[name]>>

\* A direct name missing from the catalog, raised although a pattern matches.
DirectNameOnlyWitness ==
    \E i \in ViaDirect :
        /\ calls[i].gain.outcome = "raised"
        /\ MatchingPatterns(calls[i].name) # {}

PercentageFirst(i) ==
    /\ Len(calls[i].gain.result) >= 1
    /\ calls[i].gain.result[1] = <<item_percentage(calls[i].database), 1>>

\* C9 as stated: a successful lookup begins with (item-percentage, 1) if and
\* only if the name is not in percent_less_items.
PercentageIff ==
    \A i \in DOMAIN calls :
        calls[i].gain.outcome = "returned" =>
            (PercentageFirst(i) <=> calls[i].name \notin tables.percent_less_items)

\* The number of entries the direct_name or custom_mapping rule produces.
RuleEntryCount(i) ==
    IF i \in ViaDirect THEN 1
    ELSE Len(SelectSeq(ItemsOf(i),
                       LAMBDA info : info.long_name \in DOMAIN EarliestValues(i)))

\* C9 amended: a successful lookup of a name outside percent_less_items
\* begins with (item-percentage, 1) followed by the rule's entries; for a name
\* in percent_less_items the result holds the rule's entries only.
PercentagePrepended ==
    \A i \in Computed :
        calls[i].gain.outcome = "returned" =>
            IF calls[i].name \notin tables.percent_less_items
            THEN /\ PercentageFirst(i)
                 /\ Len(calls[i].gain.result) = 1 + RuleEntryCount(i)
            ELSE Len(calls[i].gain.result) = RuleEntryCount(i)

\* The pattern "a" -> {"a": 5} looked up with "a": [(item-percentage, 1), (a, 5)].
PercentagePrependedWitness ==
    \E i \in ViaCustom :
        /\ calls[i].name = <<"a">>
        /\ calls[i].gain = Returned(<<<<ItemPercentage, 1>>, <<ItemA, 5>>>>)
        /\ \E j \in Computed :
              /\ calls[j].name \in tables.percent_less_items
              /\ calls[j].gain.outcome = "returned"

\* C10 as stated: two lookups of one name with one catalog return equal
\* gains, and a cached gain equals what the uncached computation of that name
\* returns for the catalog passed.
CacheDeterminism ==
    /\ \A i \in DOMAIN calls : \A j \in DOMAIN calls :
          (/\ calls[i].name = calls[j].name
           /\ calls[i].database = calls[j].database
           /\ calls[i].gain.outcome = "returned"
           /\ calls[j].gain.outcome = "returned")
              => calls[i].gain.result = calls[j].gain.result
    /\ \A i \in DOMAIN calls :
          calls[i].hit =>
              calls[i].gain = Uncached(tables, calls[i].name, calls[i].database)

\* The lookup that filled the cache entry a later lookup of the name hit.
Filler(i) ==
    CHOOSE j \in 1..(i - 1) :
        /\ calls[j].name = calls[i].name
        /\ ~calls[j].hit
        /\ calls[j].gain.outcome = "returned"

\* C10 amended: two lookups of one name with one catalog that both return,
\* return equal gains, and a cached gain equals what the uncached computation
\* of that name returned for the catalog of the lookup that filled the cache.
CacheDeterminismFirstCatalog ==
    /\ \A i \in DOMAIN calls : \A j \in DOMAIN calls :
          (/\ calls[i].name = calls[j].name
           /\ calls[i].database = calls[j].database
           /\ calls[i].gain.outcome = "returned"
           /\ calls[j].gain.outcome = "returned")
              => calls[i].gain.result = calls[j].gain.result
    /\ \A i \in DOMAIN calls :
          calls[i].hit =>
              /\ \E j \in 1..(i - 1) :
                    /\ calls[j].name = calls[i].name
                    /\ ~calls[j].hit
                    /\ calls[j].gain.outcome = "returned"
              /\ calls[i].gain =
                     Uncached(tables, calls[i].name, calls[Filler(i)].database)

\* A name computed with one catalog, then served from the cache for the same
\* catalog and for the other one.
CacheDeterminismWitness ==
    \E i \in DOMAIN calls : \E j \in DOMAIN calls : \E k \in DOMAIN calls :
        /\ i < j /\ j < k
        /\ calls[i].name = calls[j].name /\ calls[j].name = calls[k].name
        /\ ~calls[i].hit /\ calls[j].hit /\ calls[k].hit
        /\ calls[i].database = calls[j].database
        /\ calls[i].database # calls[k].database
        /\ Len(calls[i].gain.result) >= 2

\* C11: a cache entry, once written, is never changed or removed (so each
\* name is written at most once), and a lookup of a name that is already
\* cached returns the stored gain and leaves the cache alone, whatever the
\* catalog passed and whatever the tables would compute for it.
CacheWriteOnce ==
    [][/\ \A name \in PickupNames :
            cache[name].some => cache'[name] = cache[name]
       /\ Len(calls') = Len(calls) + 1 =>
            LET call == calls'[Len(calls')]
            IN  cache[call.name].some =>
                    /\ call.gain = Returned(cache[call.name].value)
                    /\ cache' = cache]_vars

\* Two names are cached, and the first of them was then looked up again with
\* a catalog for which the tables compute something else than the stored gain.
CacheWriteOnceWitness ==
    /\ Cardinality({name \in PickupNames : cache[name].some}) >= 2
    /\ \E i \in DOMAIN calls : \E j \in DOMAIN calls : \E k \in DOMAIN calls :
          /\ i < j /\ j < k
          /\ calls[i].name # calls[j].name
          /\ calls[k].name = calls[i].name
          /\ calls[i].gain.outcome = "returned"
          /\ calls[j].gain.outcome = "returned"
          /\ calls[k].database # calls[i].database
          /\ calls[k].gain = calls[i].gain
          /\ Uncached(tables, calls[k].name, calls[k].database) # calls[k].gain

\* C26 as stated: a lookup that raises leaves the cache as it was, and every
\* later lookup of that name with the same catalog raises again.
FailureNotCached ==
    [][Len(calls') > Len(calls) =>
        /\ calls'[Len(calls')].gain.outcome = "raised" => cache' = cache
        /\ \A i \in DOMAIN calls' : \A j \in DOMAIN calls' :
              (/\ i < j
               /\ calls'[i].gain.outcome = "raised"
               /\ calls'[j].name = calls'[i].name
               /\ calls'[j].database = calls'[i].database)
                  => calls'[j].gain.outcome = "raised"]_vars

\* Lookups between i and j that computed and returned a gain for the name of
\* lookup i with another catalog than that of lookup i.
ReturnedBetween(log, i, j) ==
    {k \in (i + 1)..(j - 1) :
        /\ log[k].name = log[i].name
        /\ log[k].database # log[i].database
        /\ ~log[k].hit
        /\ log[k].gain.outcome = "returned"}

\* C26 amended: a lookup that raises leaves the cache as it was, and a later
\* lookup of that name with the same catalog raises the same error again,
\* unless a lookup of that name with another catalog returned in between;
\* then it returns the gain that lookup stored.
FailureNotCachedSameCatalog ==
    [][Len(calls') > Len(calls) =>
        /\ calls'[Len(calls')].gain.outcome = "raised" => cache' = cache
        /\ \A i \in DOMAIN calls' : \A j \in DOMAIN calls' :
              (/\ i < j
               /\ calls'[i].gain.outcome = "raised"
               /\ calls'[j].name = calls'[i].name
               /\ calls'[j].database = calls'[i].database)
                  => IF ReturnedBetween(calls', i, j) = {}
                     THEN /\ ~calls'[j].hit
                          /\ calls'[j].gain = calls'[i].gain
                     ELSE /\ calls'[j].hit
                          /\ \E k \in ReturnedBetween(calls', i, j) :
                                calls'[j].gain = calls'[k].gain]_vars

\* A lookup raised and the same lookup, made again, raised again; one for
\* each of the three errors.
FailureNotCachedWitness ==
    \E i \in DOMAIN calls : \E j \in DOMAIN calls :
        /\ i < j
        /\ calls[i].gain.outcome = "raised"
        /\ calls[j].name = calls[i].name
        /\ calls[j].database = calls[i].database
        /\ calls[j].gain = calls[i].gain
        /\ cache[calls[i].name] = NoEntry

FailsAgain(error) ==
    \E i \in DOMAIN calls : \E j \in DOMAIN calls :
        /\ i < j
        /\ calls[i].gain = Raised(error)
        /\ calls[j].name = calls[i].name
        /\ calls[j].database = calls[i].database
        /\ calls[j].gain = Raised(error)

UnknownFailsAgainWitness == FailsAgain("Unknown")
NotFoundInDatabaseFailsAgainWitness == FailsAgain("NotFoundInDatabase")
ResourceNotFoundFailsAgainWitness == FailsAgain("ResourceNotFound")

\* A lookup raised, the name was then cached through the other catalog, and
\* the first lookup, made again, returned the cached gain.
FailureThenCachedWitness ==
    \E i \in DOMAIN calls : \E j \in DOMAIN calls :
        /\ i < j
        /\ calls[i].gain.outcome = "raised"
        /\ calls[j].name = calls[i].name
        /\ calls[j].database = calls[i].database
        /\ calls[j].hit

\* C27: two callers looking the same uncached name up at the same time, with
\* no lock, both end with the gain a lookup on its own computes, and the
\* cache ends holding that gain; at no moment does the cache hold a list
\* that is still being built.
ConcurrentFirstLookups ==
    LET anyone == CHOOSE caller \in DOMAIN threads : TRUE
        alone == Uncached(tables, threads[anyone].name, threads[anyone].database)
        name == threads[anyone].name
    IN  threads # <<>> =>
            /\ cache[name].some =>
                  /\ alone.outcome = "returned"
                  /\ cache[name].value = alone.result
            /\ \A caller \in DOMAIN threads :
                  threads[caller].pc = "done" => threads[caller].gain = alone
            /\ (\A caller \in DOMAIN threads : threads[caller].pc = "done") =>
                  /\ \A a \in DOMAIN threads : \A b \in DOMAIN threads :
                        threads[a].gain = threads[b].gain
                  /\ alone.outcome = "returned" =>
                        cache[name] = [some |-> TRUE, value |-> alone.result]
                  /\ alone.outcome = "raised" => cache[name] = NoEntry

\* Both callers missed the cache, both built a gain of at least two entries
\* and stored it, and both have returned.
ConcurrentFirstLookupsWitness ==
    /\ threads # <<>>
    /\ \A caller \in DOMAIN threads :
          /\ threads[caller].pc = "done"
          /\ threads[caller].gain.outcome = "returned"
          /\ Len(threads[caller].result) >= 2
          /\ Len(threads[caller].gain.result) >= 2

\* One caller is in the middle of the appending loop while the other has
\* already stored its gain.
BuildingWhileStoredWitness ==
    /\ threads # <<>>
    /\ \E a \in DOMAIN threads : \E b \in DOMAIN threads :
          /\ threads[a].pc = "append"
          /\ threads[a].result # <<>>
          /\ threads[b].pc \in {"return", "done"}
          /\ threads[b].gain.outcome = "returned" \/ threads[b].pc = "return"
          /\ cache[threads[a].name].some

\* One caller missed and the other returned what the first had stored.
OneMissOneHitWitness ==
    /\ threads # <<>>
    /\ \E a \in DOMAIN threads : \E b \in DOMAIN threads :
          /\ threads[a].pc = "done" /\ threads[a].result # <<>>
          /\ threads[b].pc = "done" /\ threads[b].result = <<>>
          /\ threads[b].gain = Returned(threads[a].result)

-----------------------------------------------------------------------------
(* Properties of the world graph.                                          *)

\* The areas of the game with the given world and area asset ids.
AreasWith(world_asset_id, area_asset_id) ==
    LET worlds == {world \in {game.worlds[w] : w \in DOMAIN game.worlds} :
                      world.world_asset_id = world_asset_id}
        areas == UNION {{world.areas[a] : a \in DOMAIN world.areas} :
                           world \in worlds}
    IN  {area \in areas : area.area_asset_id = area_asset_id}

\* C12: resolve_teleporter_node fails whenever the default_node_index of the
\* target Area is 255, however many nodes the Area has; when it returns, the
\* target Area exists and the returned node is the one at position
\* default_node_index of it.
TeleporterDefaultNode ==
    (resolution.called /\ resolution.node.kind = "Teleporter") =>
        LET targets == AreasWith(resolution.node.destination_world_asset_id,
                                 resolution.node.destination_area_asset_id)
        IN  /\ (\E area \in targets : area.default_node_index = NoDefaultNode)
                   => resolution.outcome.raised # ""
            /\ resolution.outcome.raised = "" =>
                   \E area \in targets :
                       /\ area.default_node_index < Len(area.nodes)
                       /\ resolution.outcome.value =
                              area.nodes[area.default_node_index + 1]

\* A teleporter was resolved into an Area that has a node at position 255 and
\* 255 as its default_node_index.
TeleporterSentinelWitness ==
    /\ resolution.called /\ resolution.node.kind = "Teleporter"
    /\ resolution.outcome.raised = "IndexError"
    /\ \E area \in AreasWith(resolution.node.destination_world_asset_id,
                              resolution.node.destination_area_asset_id) :
          /\ area.default_node_index = NoDefaultNode
          /\ Len(area.nodes) > NoDefaultNode

\* The areas of the world the reverse map gives for the node that have the
\* asset id the node connects to; empty when the node is not in the map.
ConnectedAreas(node) ==
    IF node \notin DOMAIN game.nodes_to_world THEN {}
    ELSE LET world == game.nodes_to_world[node]
         IN  {area \in {world.areas[a] : a \in DOMAIN world.areas} :
                 area.area_asset_id = node.connected_area_asset_id}

\* The Dock nodes of an area with the given dock_index.
DocksOf(area, dock_index) ==
    {node \in {area.nodes[k] : k \in DOMAIN area.nodes} :
        node.kind = "Dock" /\ node.dock_index = dock_index}

\* C13: when resolve_dock_node returns, the value is a Dock node of the Area
\* with asset id connected_area_asset_id in the world the reverse map gives
\* for the node, and its dock_index is connected_dock_index; when that world
\* has no such Area, or the Area no such Dock, the call fails.
DockResolution ==
    (resolution.called /\ resolution.node.kind = "Dock") =>
        LET node == resolution.node
            docks == UNION {DocksOf(area, node.connected_dock_index) :
                               area \in ConnectedAreas(node)}
        IN  /\ resolution.outcome.raised = "" => resolution.outcome.value \in docks
            /\ docks = {} => resolution.outcome.raised # ""

\* A dock was resolved to a Dock of its target area that is not the first
\* Dock of that area.
DockResolutionWitness ==
    /\ resolution.called /\ resolution.node.kind = "Dock"
    /\ resolution.outcome.raised = ""
    /\ \E area \in ConnectedAreas(resolution.node) :
          \E k \in DOMAIN area.nodes :
              /\ area.nodes[k].kind = "Dock"
              /\ area.nodes[k] # resolution.outcome.value
              /\ area.nodes[k].dock_index # resolution.node.connected_dock_index
              /\ resolution.outcome.value \in
                     DocksOf(area, resolution.node.connected_dock_index)

\* Dock resolutions that failed: no Area with the asset id in the owning
\* world, and no Dock with the index in an Area that exists.
DockResolutionFailsWitness ==
    /\ resolution.called /\ resolution.node.kind = "Dock"
    /\ resolution.outcome.raised = "IndexError"
    /\ ConnectedAreas(resolution.node) # {}

\* A teleporter was resolved to a default node that is not the first node.
TeleporterDefaultNodeWitness ==
    /\ resolution.called /\ resolution.node.kind = "Teleporter"
    /\ resolution.outcome.raised = ""
    /\ \E area \in AreasWith(resolution.node.destination_world_asset_id,
                              resolution.node.destination_area_asset_id) :
          /\ area.default_node_index > 0
          /\ resolution.outcome.value = area.nodes[area.default_node_index + 1]
          /\ resolution.outcome.value # area.nodes[1]

\* Whether the link of a Dock or Teleporter node resolves, from the graph.
Resolves(node) ==
    LET areas(world) == {world.areas[a] : a \in DOMAIN world.areas}
        worlds == {game.worlds[w] : w \in DOMAIN game.worlds}
    IN  IF node.kind = "Dock"
        THEN /\ node \in DOMAIN game.nodes_to_world
             /\ \E area \in areas(game.nodes_to_world[node]) :
                   /\ area.area_asset_id = node.connected_area_asset_id
                   /\ \E k \in DOMAIN area.nodes :
                         /\ area.nodes[k].kind = "Dock"
                         /\ area.nodes[k].dock_index = node.connected_dock_index
        ELSE \E world \in worlds :
                /\ world.world_asset_id = node.destination_world_asset_id
                /\ \E area \in areas(world) :
                      /\ area.area_asset_id = node.destination_area_asset_id
                      /\ area.default_node_index < Len(area.nodes)

Links == {n \in {all_nodes(game)[k] : k \in DOMAIN all_nodes(game)} :
             n.kind \in {"Dock", "Teleporter"}}

\* C5: consistency_check never raises; once it is done it has yielded exactly
\* one pair for each Dock or Teleporter node that does not resolve, whatever
\* the cause, and none for a node that resolves.
AuditNeverRaises ==
    /\ status \in {"running", "done"}
    /\ status = "done" =>
          /\ {yielded[k][1] : k \in DOMAIN yielded} = {n \in Links : ~Resolves(n)}
          /\ Len(yielded) = Cardinality({n \in Links : ~Resolves(n)})

\* The Dock nodes of the game that are in the reverse map and connect to an
\* Area that exists in their world but has no Dock with the connected index.
DanglingDocks ==
    {node \in Links :
        /\ node.kind = "Dock"
        /\ ConnectedAreas(node) # {}
        /\ \A area \in ConnectedAreas(node) :
              DocksOf(area, node.connected_dock_index) = {}}

\* Every link of the game resolves except one Dock node, which is dangling.
OneDanglingDock ==
    /\ Cardinality(DanglingDocks) = 1
    /\ \A node \in Links \ DanglingDocks : Resolves(node)

\* C14: over a game whose links all resolve except one Dock node with a
\* connected_dock_index that no Dock of its existing target Area has,
\* consistency_check runs to its end without raising and yields exactly one
\* pair, whose node is that Dock node.
OneDanglingDockOneYield ==
    OneDanglingDock =>
        /\ status \in {"running", "done"}
        /\ \A k \in DOMAIN yielded : yielded[k][1] \in DanglingDocks
        /\ Len(yielded) <= 1
        /\ status = "done" => Len(yielded) = 1

\* The audit of such a game has ended, with the dangling Dock not the first
\* link it went through.
OneDanglingDockWitness ==
    /\ OneDanglingDock
    /\ status = "done"
    /\ Len(yielded) = 1
    /\ yielded[1][1] \in DanglingDocks
    /\ yielded[1][1] # all_nodes(game)[1]

-----------------------------------------------------------------------------
(* Properties of the game session.                                         *)

\* C24: FINISH_SESSION moves a session that is IN_PROGRESS to FINISHED and
\* emits one session update; on a session in SETUP or FINISHED it raises
\* InvalidAction, leaves the row as it was and emits nothing.  A session
\* becomes FINISHED only from IN_PROGRESS, and IN_PROGRESS only from SETUP
\* through START_SESSION.
FinishOnlyInProgress ==
    [][/\ admin'.action = "FINISH_SESSION" =>
            IF session.state = "IN_PROGRESS"
            THEN /\ session' = [session EXCEPT !.state = "FINISHED"]
                 /\ admin'.outcome = "returned"
                 /\ admin'.emits = 1
            ELSE /\ session' = session
                 /\ admin'.outcome = "InvalidAction"
                 /\ admin'.emits = 0
       /\ session'.state = "FINISHED" /\ session.state # "FINISHED" =>
            session.state = "IN_PROGRESS" /\ admin'.action = "FINISH_SESSION"
       /\ session'.state = "IN_PROGRESS" /\ session.state # "IN_PROGRESS" =>
            session.state = "SETUP" /\ admin'.action = "START_SESSION"]_vars

\* A session finished by FINISH_SESSION.
FinishOnlyInProgressWitness ==
    /\ admin.action = "FINISH_SESSION"
    /\ admin.before.state = "IN_PROGRESS"
    /\ session.state = "FINISHED"
    /\ admin.emits = 1

\* FINISH_SESSION refused on a session in SETUP, and on a finished one.
FinishRefusedInSetupWitness ==
    /\ admin.action = "FINISH_SESSION"
    /\ admin.before.state = "SETUP"
    /\ admin.outcome = "InvalidAction"
    /\ session.state = "SETUP"

FinishRefusedWhenFinishedWitness ==
    /\ admin.action = "FINISH_SESSION"
    /\ admin.before.state = "FINISHED"
    /\ admin.outcome = "InvalidAction"
    /\ session.state = "FINISHED"

\* C25: generation_in_progress is a lock.  UPDATE_LAYOUT_GENERATION(true)
\* makes the caller the holder only when nobody holds it; when another user
\* holds it the call raises InvalidAction, the holder stays and nothing is
\* emitted.  UPDATE_LAYOUT_GENERATION(false) clears the holder.  A layout
\* description is accepted only from the holder, and accepting or removing
\* one clears the holder.
GenerationLock ==
    LET before == admin.before
        caller == admin.user
    IN  /\ admin.action = "UPDATE_LAYOUT_GENERATION" /\ admin.active =>
            /\ before.generation_in_progress = NoUser =>
                   /\ session.generation_in_progress = caller
                   /\ admin.outcome = "returned"
                   /\ admin.emits = 1
            /\ before.generation_in_progress \notin {NoUser, caller} =>
                   /\ session = before
                   /\ admin.outcome = "InvalidAction"
                   /\ admin.emits = 0
            /\ session.generation_in_progress # before.generation_in_progress =>
                   before.generation_in_progress = NoUser
        /\ admin.action = "UPDATE_LAYOUT_GENERATION" /\ ~admin.active =>
            /\ session.generation_in_progress = NoUser
            /\ admin.outcome = "returned"
        /\ admin.action = "CHANGE_LAYOUT_DESCRIPTION" =>
            /\ admin.description_json # NoLayout /\ admin.outcome = "returned" =>
                   /\ before.generation_in_progress = caller
                   /\ session.layout_description_json = admin.description_json
            /\ admin.description_json # NoLayout /\ admin.outcome # "returned" =>
                   session = before /\ admin.emits = 0
            /\ admin.description_json = NoLayout =>
                   /\ admin.outcome = "returned"
                   /\ session.layout_description_json = NoLayout
            /\ admin.outcome = "returned" =>
                   session.generation_in_progress = NoUser

\* The lock refused to a second user while the first holds it.
GenerationLockWitness ==
    /\ admin.action = "UPDATE_LAYOUT_GENERATION"
    /\ admin.active
    /\ admin.before.generation_in_progress \notin {NoUser, admin.user}
    /\ admin.outcome = "InvalidAction"

\* The lock taken, released, and cleared by an accepted and by a removed
\* layout description; a description refused from a user who is not the holder.
GenerationLockTakenWitness ==
    /\ admin.action = "UPDATE_LAYOUT_GENERATION"
    /\ admin.active
    /\ admin.before.generation_in_progress = NoUser
    /\ session.generation_in_progress = admin.user

GenerationLockReleasedWitness ==
    /\ admin.action = "UPDATE_LAYOUT_GENERATION"
    /\ ~admin.active
    /\ admin.before.generation_in_progress \in Users
    /\ session.generation_in_progress = NoUser

LayoutAcceptedWitness ==
    /\ admin.action = "CHANGE_LAYOUT_DESCRIPTION"
    /\ admin.description_json = LayoutJson
    /\ admin.outcome = "returned"
    /\ admin.before.generation_in_progress = admin.user
    /\ session.generation_in_progress = NoUser
    /\ session.layout_description_json = LayoutJson

LayoutRemovedWitness ==
    /\ admin.action = "CHANGE_LAYOUT_DESCRIPTION"
    /\ admin.description_json = NoLayout
    /\ admin.before.generation_in_progress \in Users
    /\ admin.before.layout_description_json = LayoutJson
    /\ session.generation_in_progress = NoUser
    /\ session.layout_description_json = NoLayout

LayoutRefusedWitness ==
    /\ admin.action = "CHANGE_LAYOUT_DESCRIPTION"
    /\ admin.description_json = LayoutJson
    /\ admin.before.generation_in_progress \in Users \ {admin.user}
    /\ admin.outcome = "InvalidAction"

====
